---- MODULE Spec2Model ----
(***************************************************************************)
(* Model of cuddlespeak (src/cuddlespeak/cuddlespeak.go): one invocation   *)
(* of the command-line tool, from flag.Parse() to process exit.            *)
(*                                                                         *)
(* A positional argument is a token [k, s, n]:                             *)
(*   k = "word"  : text with no numeric prefix, s is the text              *)
(*   k = "int"   : a decimal integer literal of value n                    *)
(*   k = "float" : a decimal literal with a fraction, n is its value in    *)
(*                 tenths (40.4 is n = 404, -1.0 is n = -10)               *)
(* Floating point values are carried in tenths throughout.                 *)
(***************************************************************************)
EXTENDS Integers, Sequences, FiniteSets, TLC

VARIABLES
    selectors,  \* the actuator flags that are set (-ribs, -purr, ...)
    help,       \* -help
    debug,      \* -debug
    args,       \* flag.Args(): the positional arguments
    pc,         \* position of the process
    port,       \* "unopened", "open", "closed"
    ops,        \* transport operations performed so far, in order
    sent,       \* messages handed to the transport for writing
    writeOk,    \* whether the last write succeeded
    addr,       \* address runcmd was called with
    now,        \* the clock, in seconds since process start
    writeDone,  \* the clock when the write returned, -1 before
    deadline,   \* the read deadline set on the connection, -1 if none
    stdout,     \* number of reply bytes copied to standard output
    logged,     \* whether "sent ... message" was logged
    exit,       \* exit status, -1 while running
    diag        \* what was reported on stderr at exit

inputs == <<selectors, help, debug, args>>
transport == <<port, ops, sent, writeOk, now, writeDone, deadline, stdout>>
vars == <<selectors, help, debug, args, pc, port, ops, sent, writeOk, addr,
          now, writeDone, deadline, stdout, logged, exit, diag>>

\* ---------------------------------------------------------------- bounds
MaxOperands == 6
MaxWriteTicks == 1
MaxReply == 1

\* ---------------------------------------------------------------- tokens
W(s) == [k |-> "word", s |-> s, n |-> 0]
I(n) == [k |-> "int", s |-> "", n |-> n]
F(n) == [k |-> "float", s |-> "", n |-> n]

Actuators == {"ribs", "purr", "spine", "headx", "heady"}

ADDR_RIBS == "ADDR_RIBS"
ADDR_PURR == "ADDR_PURR"
ADDR_SPINE == "ADDR_SPINE"
ADDR_HEAD_YAW == "ADDR_HEAD_YAW"
ADDR_HEAD_PITCH == "ADDR_HEAD_PITCH"
NoAddr == "none"

\* ------------------------------------------------------- flag package
NArg == Len(args)

\* flag.Arg(i): the i'th positional argument, "" when there is none
Arg(i) == IF i < Len(args) THEN args[i + 1] ELSE W("")

\* ------------------------------------------------------------ parsing
Trunc10(n) == IF n >= 0 THEN n \div 10 ELSE 0 - ((0 - n) \div 10)

\* fmt.Fscanf(buf, "%d", &v) into a zero-initialised int, error ignored:
\* an integer prefix is converted, anything else leaves v at 0
ScanInt(tok) ==
    CASE tok.k = "int" -> tok.n
      [] tok.k = "float" -> Trunc10(tok.n)
      [] OTHER -> 0

\* fmt.Fscanf(buf, "%f", &v) into a zero-initialised float32 (in tenths)
ScanFloat(tok) ==
    CASE tok.k = "int" -> tok.n * 10
      [] tok.k = "float" -> tok.n
      [] OTHER -> 0

\* the conversion uint16(x) of a Go int
Uint16(x) == x % 65536

\* ------------------------------------------------------------ encoder
\* msgtype.WriteSetPID / WriteSetpoint / WritePing / WriteRunTests /
\* WriteRequestPosition: the structured command that is serialised
Encode(kind, a, kp, ki, kd, delay, loop, setpoints) ==
    [kind |-> kind, addr |-> a, kp |-> kp, ki |-> ki, kd |-> kd,
     delay |-> delay, loop |-> loop, setpoints |-> setpoints]

EncodeBare(kind, a) == Encode(kind, a, 0, 0, 0, 0, 0, <<>>)

\* one write of the encoded message to conn; the write takes some time and
\* may fail, and the result is returned to a caller that does not look at it
WriteMsg(msg) ==
    \E ok \in BOOLEAN, dt \in 0..MaxWriteTicks :
        /\ sent' = Append(sent, msg)
        /\ ops' = Append(ops, "write")
        /\ writeOk' = ok
        /\ now' = now + dt
        /\ writeDone' = now + dt

\* ------------------------------------------------------- process exit
\* usage() then os.Exit(1): deferred calls do not run
FatalUsage ==
    /\ pc' = "exited"
    /\ exit' = 1
    /\ diag' = "usage"

\* log.Fatal(...): print then os.Exit(1)
LogFatal(d) ==
    /\ pc' = "exited"
    /\ exit' = 1
    /\ diag' = d

\* --------------------------------------------------------------- main
TooFewArgs_OffByOne == NArg < 1

TooFewArgs == NArg < 2

CheckArgs ==
    /\ pc = "main"
    /\ IF TooFewArgs
         THEN FatalUsage
         ELSE IF help
           THEN pc' = "exited" /\ exit' = 0 /\ diag' = "help"
           ELSE pc' = "open" /\ UNCHANGED <<exit, diag>>
    /\ UNCHANGED <<inputs, transport, addr, logged>>

OpenPort ==
    /\ pc = "open"
    /\ \E ok \in BOOLEAN :
         IF ok
           THEN /\ port' = "open"
                /\ ops' = Append(ops, "open")
                /\ pc' = "switch"
                /\ UNCHANGED <<exit, diag>>
           ELSE /\ LogFatal("open")
                /\ UNCHANGED <<port, ops>>
    /\ UNCHANGED <<inputs, sent, writeOk, now, writeDone, deadline, stdout,
                   addr, logged>>

\* switch true { case *ribs: ... case *purr: ... }: the first case that holds
Selected ==
    CASE "ribs" \in selectors -> ADDR_RIBS
      [] "purr" \in selectors -> ADDR_PURR
      [] "spine" \in selectors -> ADDR_SPINE
      [] "headx" \in selectors -> ADDR_HEAD_YAW
      [] "heady" \in selectors -> ADDR_HEAD_PITCH
      [] OTHER -> NoAddr

SelectActuator ==
    /\ pc = "switch"
    /\ addr' = Selected
    /\ pc' = IF Selected = NoAddr THEN "return" ELSE "runcmd"
    /\ UNCHANGED <<inputs, transport, logged, exit, diag>>

\* the deferred port.Close() runs when main returns
MainReturn ==
    /\ pc = "return"
    /\ port' = "closed"
    /\ ops' = Append(ops, "close")
    /\ pc' = "exited"
    /\ exit' = 0
    /\ UNCHANGED <<inputs, sent, writeOk, now, writeDone, deadline, stdout,
                   addr, logged, diag>>

\* ------------------------------------------------------------- runcmd
Cmd == Arg(1)

RunSetpid ==
    /\ pc = "runcmd"
    /\ Cmd = W("setpid")
    /\ IF NArg < 5
         THEN /\ FatalUsage
              /\ UNCHANGED transport
         ELSE /\ WriteMsg(Encode("setpid", addr, ScanFloat(Arg(2)),
                                 ScanFloat(Arg(3)), ScanFloat(Arg(4)),
                                 0, 0, <<>>))
              /\ pc' = "log"
              /\ UNCHANGED <<port, deadline, stdout, exit, diag>>
    /\ UNCHANGED <<inputs, addr, logged>>

delayInt == ScanInt(Arg(2))
loopInt == ScanInt(Arg(3))

\* the body of the loop for i = 4 + 2*j: what is stored in setpoints[j]
SetpointEntry_Swapped(j) ==
    [Duration |-> Uint16(ScanInt(Arg(4 + 2 * j + 1))),
     Setpoint |-> Uint16(ScanInt(Arg(4 + 2 * j)))]

SetpointEntry(j) ==
    [Duration |-> Uint16(ScanInt(Arg(4 + 2 * j))),
     Setpoint |-> Uint16(ScanInt(Arg(4 + 2 * j + 1)))]

\* the check made inside the loop, after duration and setpoint are scanned
PairRejected(j) == delayInt < 0 \/ loopInt < 0

\* setpoints := make([]msgtype.Setpoint, (flag.NArg()-4)/2), then filled
Setpoints == [j \in 1..((NArg - 4) \div 2) |-> SetpointEntry(j - 1)]

RunSetpoint ==
    /\ pc = "runcmd"
    /\ Cmd = W("setpoint")
    /\ IF NArg < 6
         THEN /\ FatalUsage
              /\ UNCHANGED transport
         ELSE IF NArg % 2 # 0
           THEN /\ LogFatal("pairs")
                /\ UNCHANGED transport
           ELSE IF delayInt < 0 \/ loopInt < 0
             THEN /\ LogFatal("positive")
                  /\ UNCHANGED transport
             ELSE IF \E j \in 0..(((NArg - 4) \div 2) - 1) : PairRejected(j)
               THEN /\ LogFatal("positive")
                    /\ UNCHANGED transport
               ELSE /\ WriteMsg(Encode("setpoint", addr, 0, 0, 0,
                                       Uint16(delayInt), Uint16(loopInt),
                                       Setpoints))
                    /\ pc' = "log"
                    /\ UNCHANGED <<port, deadline, stdout, exit, diag>>
    /\ UNCHANGED <<inputs, addr, logged>>

RunPing ==
    /\ pc = "runcmd"
    /\ Cmd = W("ping")
    /\ WriteMsg(EncodeBare("ping", addr))
    /\ pc' = "deadline"
    /\ UNCHANGED <<inputs, port, deadline, stdout, addr, logged, exit, diag>>

RunTest ==
    /\ pc = "runcmd"
    /\ Cmd = W("test")
    /\ WriteMsg(EncodeBare("test", addr))
    /\ pc' = "deadline"
    /\ UNCHANGED <<inputs, port, deadline, stdout, addr, logged, exit, diag>>

RunValue ==
    /\ pc = "runcmd"
    /\ Cmd = W("value")
    /\ WriteMsg(EncodeBare("value", addr))
    /\ pc' = "deadline"
    /\ UNCHANGED <<inputs, port, deadline, stdout, addr, logged, exit, diag>>

\* time.Second for ping and value, time.Minute * 5 for test, in seconds
ReadTimeout_TestInSeconds(c) ==
    CASE c = W("ping") -> 1
      [] c = W("test") -> 5
      [] c = W("value") -> 1

ReadTimeout(c) ==
    CASE c = W("ping") -> 1
      [] c = W("test") -> 300
      [] c = W("value") -> 1

\* conn.SetReadDeadline(time.Now().Add(...))
SetReadDeadline ==
    /\ pc = "deadline"
    /\ deadline' = now + ReadTimeout(Cmd)
    /\ ops' = Append(ops, "deadline")
    /\ pc' = "copy"
    /\ UNCHANGED <<inputs, port, sent, writeOk, now, writeDone, stdout,
                   addr, logged, exit, diag>>

\* io.Copy(os.Stdout, conn): whatever arrives before the deadline or EOF
CopyReply ==
    /\ pc = "copy"
    /\ \E n \in 0..MaxReply : stdout' = n
    /\ ops' = Append(ops, "read")
    /\ pc' = "log"
    /\ UNCHANGED <<inputs, port, sent, writeOk, now, writeDone, deadline,
                   addr, logged, exit, diag>>

RunDefault ==
    /\ pc = "runcmd"
    /\ Cmd \notin {W("setpid"), W("setpoint"), W("ping"), W("test"),
                   W("value")}
    /\ FatalUsage
    /\ UNCHANGED <<inputs, transport, addr, logged>>

\* if *debug { log.Printf("sent %s message to address %d", ...) }
LogSent ==
    /\ pc = "log"
    /\ logged' = debug
    /\ pc' = "return"
    /\ UNCHANGED <<inputs, transport, addr, exit, diag>>

\* -------------------------------------------------------- invocations
Word == W("x")

OperandToks ==
    {I(0), I(7), I(0 - 2), I(65535), I(65536), W("forever"), W("abc")}

\* invocations that vary the flags over a few short command lines
ArgsShort ==
    { <<>>,
      <<W("ping")>>,
      <<Word, W("ping")>>,
      <<Word, W("test")>>,
      <<Word, W("value")>>,
      <<Word, W("bogus")>>,
      <<W("setpid"), F(404), F(10), F(0 - 10)>>,
      <<Word, W("setpid"), F(404), F(10), F(0 - 10)>>,
      <<Word, W("setpid"), W("abc"), F(10), I(3)>>,
      <<Word, W("setpid"), F(10)>> }

\* setpoint invocations over every operand list up to MaxOperands tokens
ArgsSetpoint ==
    { <<Word, W("setpoint")>> \o s :
        s \in UNION { [1..k -> OperandToks] : k \in 0..MaxOperands } }

Init ==
    /\ \/ /\ selectors \in SUBSET Actuators
          /\ help \in BOOLEAN
          /\ debug \in BOOLEAN
          /\ args \in ArgsShort
       \/ /\ selectors = {"ribs"}
          /\ help = FALSE
          /\ debug = FALSE
          /\ args \in ArgsSetpoint
    /\ pc = "main"
    /\ port = "unopened"
    /\ ops = <<>>
    /\ sent = <<>>
    /\ writeOk = TRUE
    /\ addr = NoAddr
    /\ now = 0
    /\ writeDone = 0 - 1
    /\ deadline = 0 - 1
    /\ stdout = 0
    /\ logged = FALSE
    /\ exit = 0 - 1
    /\ diag = "none"

Next ==
    \/ CheckArgs
    \/ OpenPort
    \/ SelectActuator
    \/ RunSetpid
    \/ RunSetpoint
    \/ RunPing
    \/ RunTest
    \/ RunValue
    \/ RunDefault
    \/ SetReadDeadline
    \/ CopyReply
    \/ LogSent
    \/ MainReturn

Spec == Init /\ [][Next]_vars

TypeOK ==
    /\ pc \in {"main", "open", "switch", "runcmd", "deadline", "copy", "log",
               "return", "exited"}
    /\ port \in {"unopened", "open", "closed"}
    /\ exit \in {0 - 1, 0, 1}

\* ======================================================== properties
Exited == pc = "exited"

\* an exit through fatalUsage or through one of runcmd's log.Fatal calls
UsageError == Exited /\ exit = 1 /\ diag \in {"usage", "pairs", "positive"}

Count(op) == Cardinality({i \in DOMAIN ops : ops[i] = op})

IsIO(op) == op \in {"write", "deadline", "read"}

Prefix(s, t) == Len(s) <= Len(t) /\ s = SubSeq(t, 1, Len(s))

\* runcmd has been entered
InRuncmd == addr # NoAddr

\* the arguments that follow the command name, counted from 0
NOperands == NArg - 2
Operand(i) == Arg(2 + i)

\* C1 (as stated): an invocation that ends in a usage error has had no
\* transport interaction at all: the port was not even opened.
C1_PortUntouchedOnUsageError ==
    UsageError => (ops = <<>> /\ port = "unopened")

\* C1 (amended): an invocation that ends in a usage error has written
\* nothing to the port, set no deadline and read nothing from it; the port is
\* still unopened when the error is too few positional arguments, and is
\* already open when the error is found in runcmd.
C1_NoIOOnUsageError ==
    UsageError =>
        /\ sent = <<>>
        /\ Count("write") = 0 /\ Count("deadline") = 0 /\ Count("read") = 0
        /\ (NArg < 2 => (ops = <<>> /\ port = "unopened"))
        /\ (NArg >= 2 => ops = <<"open">>)

C1_Witness ==
    UsageError /\ diag = "pairs" /\ port = "open" /\ Cmd = W("setpoint")

\* C2: once the port has been opened, it is closed by the time the process
\* has exited, whatever the exit path.
C2_ClosedOnEveryExit ==
    (Exited /\ Count("open") > 0) => port = "closed"

\* C3: a dispatched command performs exactly one write and then, for ping,
\* value and test only, one deadline-then-read, the deadline being 1 second
\* (ping, value) or 300 seconds (test) after the write returned; setpid and
\* setpoint set no deadline and read nothing.
C3_OneWriteThenTimedRead ==
    LET io == SelectSeq(ops, IsIO)
        done == Exited /\ exit = 0 /\ InRuncmd
    IN  /\ Len(sent) <= 1 /\ Count("write") = Len(sent)
        /\ Cmd \in {W("ping"), W("value"), W("test")} =>
             /\ Prefix(io, <<"write", "deadline", "read">>)
             /\ done => io = <<"write", "deadline", "read">>
        /\ Cmd \in {W("setpid"), W("setpoint")} =>
             /\ Prefix(io, <<"write">>)
             /\ deadline = 0 - 1
             /\ done => io = <<"write">>
        /\ deadline # 0 - 1 =>
             /\ writeDone # 0 - 1
             /\ Cmd \in {W("ping"), W("value")} => deadline - writeDone = 1
             /\ Cmd = W("test") => deadline - writeDone = 300

C3_Witness ==
    /\ Exited /\ exit = 0 /\ Cmd = W("test") /\ addr = ADDR_SPINE
    /\ ops = <<"open", "write", "deadline", "read", "close">>
    /\ writeDone = 1 /\ deadline = 301

AddrOf(f) ==
    CASE f = "ribs" -> ADDR_RIBS
      [] f = "purr" -> ADDR_PURR
      [] f = "spine" -> ADDR_SPINE
      [] f = "headx" -> ADDR_HEAD_YAW
      [] f = "heady" -> ADDR_HEAD_PITCH

\* C4: with exactly one selector flag set, whatever is dispatched goes to
\* that actuator's address; with none or several set, nothing is dispatched
\* and the process exits non-zero.
C4_ExactlyOneSelector ==
    /\ Cardinality(selectors) = 1 =>
         \A i \in DOMAIN sent : \A f \in selectors : sent[i].addr = AddrOf(f)
    /\ (Cardinality(selectors) # 1 /\ ~help) =>
         /\ sent = <<>>
         /\ Exited => exit = 1

\* the setpoint arity property for operands that are integer literals in
\* 0..maxv
SetpointArity(maxv) ==
    (Cmd = W("setpoint") /\ InRuncmd) =>
        /\ (NOperands < 4 \/ NOperands % 2 # 0) =>
             /\ sent = <<>>
             /\ Exited => exit = 1
        /\ ( /\ NOperands >= 4 /\ NOperands % 2 = 0
             /\ \A i \in 0..(NOperands - 1) :
                  /\ Operand(i).k = "int"
                  /\ Operand(i).n >= 0 /\ Operand(i).n <= maxv
             /\ pc \in {"log", "return", "exited"} ) =>
             /\ Len(sent) = 1
             /\ sent[1].kind = "setpoint"
             /\ sent[1].delay = Operand(0).n
             /\ sent[1].loop = Operand(1).n
             /\ Len(sent[1].setpoints) = (NOperands - 2) \div 2
             /\ \A j \in 0..(((NOperands - 2) \div 2) - 1) :
                  sent[1].setpoints[j + 1] =
                      [Duration |-> Operand(2 + 2 * j).n,
                       Setpoint |-> Operand(3 + 2 * j).n]

\* C5 (as stated): for n operands after the command name, n even and >= 4
\* and all of them non-negative integers, the dispatched sequence has
\* (n-2)/2 entries, entry j being (operand 2+2j, operand 3+2j), delay is
\* operand 0 and loop is operand 1; n odd or n < 4 fails and sends nothing.
C5_SetpointArityAnyInt == SetpointArity(65536)

\* C5 (amended): the same, for operands that are integers in 0..65535.
C5_SetpointArityUint16 == SetpointArity(65535)

C5_Witness ==
    /\ Exited /\ exit = 0 /\ Cmd = W("setpoint") /\ NOperands = 6
    /\ \A i \in 0..5 : Operand(i).k = "int" /\ Operand(i).n \in 0..65535
    /\ Len(sent) = 1 /\ Len(sent[1].setpoints) = 2
    /\ sent[1].setpoints[1].Duration # sent[1].setpoints[1].Setpoint
    /\ sent[1].setpoints[1] # sent[1].setpoints[2]
    /\ sent[1].delay # sent[1].loop

\* C6: the loop value dispatched for the token "forever" is different from
\* the loop value dispatched for "0" and for any other finite count.
C6_ForeverIsNotAFiniteCount ==
    \A i \in DOMAIN sent :
        (sent[i].kind = "setpoint" /\ Operand(1) = W("forever")) =>
            \A c \in {0, 7, 65535} : sent[i].loop # Uint16(ScanInt(I(c)))

\* C7: a setpoint command with a negative value in any numeric field writes
\* no message and exits non-zero.
C7_NegativeFailsValidation ==
    ( /\ Cmd = W("setpoint") /\ InRuncmd
      /\ \E i \in 0..(NOperands - 1) :
           Operand(i).k = "int" /\ Operand(i).n < 0 ) =>
        /\ sent = <<>>
        /\ Exited => exit = 1

\* C8: a setpid or setpoint command with a malformed numeric literal (other
\* than "forever" as the loop count) dispatches nothing and exits non-zero.
C8_MalformedFailsValidation ==
    ( /\ InRuncmd
      /\ \/ /\ Cmd = W("setpid")
            /\ \E i \in 0..2 : Operand(i).k = "word"
         \/ /\ Cmd = W("setpoint")
            /\ \E i \in 0..(NOperands - 1) :
                 /\ Operand(i).k = "word"
                 /\ ~(i = 1 /\ Operand(i) = W("forever")) ) =>
        /\ sent = <<>>
        /\ Exited => exit = 1

\* C9: after a failed write there is no deadline and no read, no "sent"
\* report, and the process exits non-zero.
C9_WriteFailureIsFatal ==
    (Count("write") > 0 /\ ~writeOk) =>
        /\ Count("deadline") = 0 /\ Count("read") = 0
        /\ ~logged
        /\ Exited => exit = 1

\* C10: the command name is the first positional argument: "-ribs ping"
\* (or test, value) passes validation and dispatches that command, and
\* "-ribs setpid 40.4 1.0 -1.0" dispatches SetPID(40.4, 1.0, -1.0).
C10_CommandIsFirstPositional ==
    (Exited /\ Cardinality(selectors) = 1 /\ ~help) =>
        /\ args \in {<<W("ping")>>, <<W("test")>>, <<W("value")>>} =>
             /\ diag # "usage"
             /\ port # "unopened" =>
                  (Len(sent) = 1 /\ sent[1].kind = args[1].s)
        /\ args = <<W("setpid"), F(404), F(10), F(0 - 10)>> =>
             /\ diag # "usage"
             /\ port # "unopened" =>
                  /\ Len(sent) = 1 /\ sent[1].kind = "setpid"
                  /\ sent[1].kp = 404 /\ sent[1].ki = 10
                  /\ sent[1].kd = 0 - 10

====
